---- MODULE Spec2Model ----
(***************************************************************************)
(* Model of backend/backend_app.py: the in-memory post list POSTS and the  *)
(* five Flask handlers get_posts, add_post, delete_post, update_post and   *)
(* search_posts.                                                           *)
(*                                                                         *)
(* Text values (titles, contents, search terms) are sequences of code      *)
(* points, so that str.lower(), the substring test and the ordering used   *)
(* by sorted() are computed, not assumed.  A JSON body and a query string  *)
(* are functions from the keys present to their values, like the dicts the *)
(* handlers read.  The values of title and content in a JSON body are      *)
(* ASCII text.                                                             *)
(*                                                                         *)
(* Spec     : the handlers run one at a time, each as one step.            *)
(* ConcSpec : the handlers of two requests run on two threads of the       *)
(*            threaded development server, interleaved statement by        *)
(*            statement; nothing in the source guards POSTS.               *)
(***************************************************************************)
EXTENDS Integers, Sequences, FiniteSets, TLC

VARIABLES POSTS, req, resp, pc, loc

vars == <<POSTS, req, resp, pc, loc>>

----------------------------------------------------------------------------
(* Bounds of the model: add_post is taken only while the list has fewer    *)
(* than MaxPosts posts and the id it assigns is at most MaxId.             *)

MaxPosts == 3
MaxId == 3

----------------------------------------------------------------------------
(* Text values *)

sEmpty == <<>>
sX == <<88>>
sFirstTitle == <<70, 105, 114, 115, 116, 32, 112, 111, 115, 116>>
sFirstContent == <<84, 104, 105, 115, 32, 105, 115, 32, 116, 104, 101, 32, 102, 105, 114, 115, 116, 32, 112, 111, 115, 116, 46>>
sSecondTitle == <<83, 101, 99, 111, 110, 100, 32, 112, 111, 115, 116>>
sSecondContent == <<84, 104, 105, 115, 32, 105, 115, 32, 116, 104, 101, 32, 115, 101, 99, 111, 110, 100, 32, 112, 111, 115, 116, 46>>
qFirst == <<102, 105, 114, 115, 116>>
qPOST == <<80, 79, 83, 84>>

\* values a client puts in the title and content of a JSON body
InputTexts == {sEmpty, sX}

\* values a client puts in the title and content query parameters
QueryTexts == {sEmpty, qFirst, qPOST}

\* values of the sort_by and order query parameters
SortByInputs == {"id", "title", "content", "date"}
OrderInputs == {"asc", "desc", "up"}

\* ids a client puts in the path (<int:id> accepts the naturals)
PathIds == 0 .. MaxId

None == "<None>"

\* all functions from a subset of keys to vals: the dicts over these keys
Dicts(keys, vals) == UNION {[D -> vals] : D \in SUBSET keys}

\* the JSON bodies a client sends to add_post
AddPayloads == Dicts({"title", "content"}, InputTexts)

\* the JSON bodies a client sends to update_post: an empty title, a content
\* that is not empty, each present or absent
UpdatePayloads ==
    {d \in Dicts({"title", "content"}, InputTexts) :
        /\ ("title" \in DOMAIN d => d["title"] = sEmpty)
        /\ ("content" \in DOMAIN d => d["content"] = sX)}

\* the query strings a client sends to get_posts
ListArgs ==
    Dicts({"sort_by"}, SortByInputs) \cup
    {[sort_by |-> s, order |-> o] : s \in SortByInputs, o \in OrderInputs} \cup
    {[order |-> "desc"]}

\* the query strings a client sends to search_posts
SearchArgs == Dicts({"title", "content"}, QueryTexts)

\* dict.get(key, default)
Get(d, key, default) == IF key \in DOMAIN d THEN d[key] ELSE default

----------------------------------------------------------------------------
(* str operations *)

\* str.lower() on ASCII text
LowerChar(c) == IF c \in 65 .. 90 THEN c + 32 ELSE c

Lower(s) == [i \in DOMAIN s |-> LowerChar(s[i])]

\* sub in s
Contains(sub, s) ==
    \E k \in 0 .. (Len(s) - Len(sub)) : SubSeq(s, k + 1, k + Len(sub)) = sub

\* a < b for str: by code point at the first difference, a proper prefix first
StrLess(a, b) ==
    \E k \in 1 .. (Len(a) + 1) :
        /\ k <= Len(b)
        /\ \A j \in 1 .. (k - 1) : a[j] = b[j]
        /\ (k = Len(a) + 1 \/ a[k] < b[k])

----------------------------------------------------------------------------
(* The store *)

SeedPosts ==
    << [id |-> 1, title |-> sFirstTitle, content |-> sFirstContent],
       [id |-> 2, title |-> sSecondTitle, content |-> sSecondContent] >>

Ids(posts) == {posts[i].id : i \in DOMAIN posts}

Max(S) == CHOOSE m \in S : \A x \in S : x <= m

----------------------------------------------------------------------------
(* get_posts *)

\* post[sort_by] < other[sort_by]
KeyLess(sort_by, p, q) ==
    IF sort_by = "id" THEN p.id < q.id
    ELSE IF sort_by = "title" THEN StrLess(p.title, q.title)
    ELSE StrLess(p.content, q.content)

\* a sort that drops the reverse flag
Before_NoReverse(sort_by, reverse, p, q) == KeyLess(sort_by, p, q)

\* the comparison sorted() makes: reversed when reverse is set
Before(sort_by, reverse, p, q) ==
    IF reverse THEN KeyLess(sort_by, q, p) ELSE KeyLess(sort_by, p, q)

\* insert p after every element that does not come after it (stable)
RECURSIVE InsertSorted(_, _, _, _)
InsertSorted(acc, p, sort_by, reverse) ==
    IF acc = <<>> THEN <<p>>
    ELSE IF Before(sort_by, reverse, p, acc[Len(acc)])
         THEN Append(InsertSorted(SubSeq(acc, 1, Len(acc) - 1), p, sort_by, reverse),
                     acc[Len(acc)])
         ELSE Append(acc, p)

\* sorted(POSTS, key=lambda post: post[sort_by], reverse=reverse)
RECURSIVE Sorted(_, _, _)
Sorted(posts, sort_by, reverse) ==
    IF posts = <<>> THEN <<>>
    ELSE InsertSorted(Sorted(SubSeq(posts, 1, Len(posts) - 1), sort_by, reverse),
                      posts[Len(posts)], sort_by, reverse)

\* line 38
ValidSortBy(sort_by) == sort_by \in {None, "id", "title", "content"}

\* lines 34-53.  Every dict of POSTS has the three keys, so post[sort_by]
\* raises no KeyError for a sort_by that passed line 38 and lines 46-47 are
\* not reached.
GetPostsResponse(posts, args) ==
    LET sort_by == Get(args, "sort_by", None)
        order == Get(args, "order", "asc")
    IN  IF ~ValidSortBy(sort_by)
        THEN [status |-> 400, error |-> "Invalid sort_by field"]
        ELSE IF sort_by # None
             THEN [status |-> 200, body |-> Sorted(posts, sort_by, order = "desc")]
             ELSE [status |-> 200, body |-> posts]

----------------------------------------------------------------------------
(* add_post *)

\* a presence test that also rejects the empty string
MissingFields_Truthy(data) ==
    SelectSeq(<<"title", "content">>,
              LAMBDA field : field \notin DOMAIN data \/ data[field] = <<>>)

MissingFields(data) ==
    SelectSeq(<<"title", "content">>, LAMBDA field : field \notin DOMAIN data)

\* an id taken from the number of posts
NewId_Count(posts) == Len(posts) + 1

NewId(posts) == IF posts # <<>> THEN Max(Ids(posts)) + 1 ELSE 1

\* a post built with the two fields exchanged
NewPost_Swapped(new_id, data) ==
    [id |-> new_id, title |-> data["content"], content |-> data["title"]]

NewPost(new_id, data) ==
    [id |-> new_id, title |-> data["title"], content |-> data["content"]]

\* an insert at the front of the list
AppendPost_Front(posts, new_post) == <<new_post>> \o posts

AppendPost(posts, new_post) == Append(posts, new_post)

----------------------------------------------------------------------------
(* delete_post, update_post *)

\* next((post for post in POSTS if post["id"] == id), None), as an index; 0 is None
FindPost(posts, id) ==
    IF \E i \in DOMAIN posts : posts[i].id = id
    THEN CHOOSE i \in DOMAIN posts :
            /\ posts[i].id = id
            /\ \A j \in 1 .. (i - 1) : posts[j].id # id
    ELSE 0

RemoveAt(posts, i) == SubSeq(posts, 1, i - 1) \o SubSeq(posts, i + 1, Len(posts))

\* a removal of every post from x on
ListRemove_Tail(posts, x) ==
    LET i == CHOOSE k \in DOMAIN posts : posts[k] = x
    IN  SubSeq(posts, 1, i - 1)

\* list.remove(x): drops the first element equal to x
ListRemove(posts, x) ==
    LET i == CHOOSE k \in DOMAIN posts :
                 /\ posts[k] = x
                 /\ \A j \in 1 .. (k - 1) : posts[j] # x
    IN  RemoveAt(posts, i)

NewTitle(data, post) == Get(data, "title", post.title)

\* an absent content that resets the field
NewContent_Reset(data, post) == Get(data, "content", <<>>)

NewContent(data, post) == Get(data, "content", post.content)

SetTitle(post, title) == [post EXCEPT !.title = title]

SetContent(post, content) == [post EXCEPT !.content = content]

----------------------------------------------------------------------------
(* search_posts *)

\* a match that compares the term with the title as stored
Matches_CaseSensitive(post, title_query, content_query) ==
    /\ (IF title_query # <<>> THEN Contains(title_query, post.title) ELSE TRUE)
    /\ (IF content_query # <<>> THEN Contains(content_query, Lower(post.content)) ELSE TRUE)

Matches(post, title_query, content_query) ==
    /\ (IF title_query # <<>> THEN Contains(title_query, Lower(post.title)) ELSE TRUE)
    /\ (IF content_query # <<>> THEN Contains(content_query, Lower(post.content)) ELSE TRUE)

FilteredPosts(posts, args) ==
    LET title_query == Lower(Get(args, "title", <<>>))
        content_query == Lower(Get(args, "content", <<>>))
    IN  SelectSeq(posts, LAMBDA post : Matches(post, title_query, content_query))

----------------------------------------------------------------------------
(* The handlers, one request at a time *)

\* the request threads of the server; one suffices when requests do not overlap
Threads == {1, 2}

NoLocals == [op |-> "none"]

Init ==
    /\ POSTS = SeedPosts
    /\ req = [op |-> "none"]
    /\ resp = [status |-> 0]
    /\ pc = [t \in Threads |-> "idle"]
    /\ loc = [t \in Threads |-> NoLocals]

get_posts ==
    \E args \in ListArgs :
        /\ req' = [op |-> "get_posts", args |-> args]
        /\ resp' = GetPostsResponse(POSTS, args)
        /\ UNCHANGED <<POSTS, pc, loc>>

add_post ==
    \E data \in AddPayloads :
        LET missing_fields == MissingFields(data)
            new_id == NewId(POSTS)
        IN  /\ req' = [op |-> "add_post", data |-> data]
            /\ IF missing_fields # <<>>
               THEN /\ resp' = [status |-> 400, error |-> "Missing required fields",
                                missing_fields |-> missing_fields]
                    /\ UNCHANGED POSTS
               ELSE /\ Len(POSTS) < MaxPosts
                    /\ new_id <= MaxId
                    /\ POSTS' = AppendPost(POSTS, NewPost(new_id, data))
                    /\ resp' = [status |-> 201, body |-> NewPost(new_id, data)]
            /\ UNCHANGED <<pc, loc>>

delete_post ==
    \E id \in PathIds :
        LET post_to_delete == FindPost(POSTS, id)
        IN  /\ req' = [op |-> "delete_post", id |-> id]
            /\ IF post_to_delete = 0
               THEN /\ resp' = [status |-> 404, error |-> "not found"]
                    /\ UNCHANGED POSTS
               ELSE /\ POSTS' = ListRemove(POSTS, POSTS[post_to_delete])
                    /\ resp' = [status |-> 200, message |-> "deleted"]
            /\ UNCHANGED <<pc, loc>>

update_post ==
    \E post_id \in PathIds, data \in UpdatePayloads :
        LET post_to_update == FindPost(POSTS, post_id)
        IN  /\ req' = [op |-> "update_post", id |-> post_id, data |-> data]
            /\ IF post_to_update = 0
               THEN /\ resp' = [status |-> 404, error |-> "not found"]
                    /\ UNCHANGED POSTS
               ELSE LET post == POSTS[post_to_update]
                        title == NewTitle(data, post)
                        content == NewContent(data, post)
                        updated == SetContent(SetTitle(post, title), content)
                    IN  /\ POSTS' = [POSTS EXCEPT ![post_to_update] = updated]
                        /\ resp' = [status |-> 200, body |-> updated]
            /\ UNCHANGED <<pc, loc>>

search_posts ==
    \E args \in SearchArgs :
        /\ req' = [op |-> "search_posts", args |-> args]
        /\ resp' = [status |-> 200, body |-> FilteredPosts(POSTS, args)]
        /\ UNCHANGED <<POSTS, pc, loc>>

Next ==
    \/ get_posts
    \/ add_post
    \/ delete_post
    \/ update_post
    \/ search_posts

Spec == Init /\ [][Next]_vars

----------------------------------------------------------------------------
(* The handlers on two threads (ConcSpec)                                  *)
(*                                                                         *)
(* app.run() serves each request on a thread of its own and the handlers   *)
(* take no lock, so the statements of two handlers interleave.  A step is  *)
(* one statement that reads or writes POSTS, together with the statements  *)
(* on locals that precede it.  pc[t] is the statement thread t runs next,  *)
(* loc[t] its locals; req and resp are the request and response of the     *)
(* handler that returned last.                                             *)
(*                                                                         *)
(* post_to_delete and post_to_update are references to a dict.  loc[t].ref *)
(* is the position of that dict in POSTS; when the other thread removes    *)
(* the dict from POSTS the reference stays valid: ref becomes 0 and        *)
(* loc[t].det holds the dict.  With two threads no second reference to a   *)
(* removed dict exists.                                                    *)

\* inputs of the interleaved requests
ConcAddPayloads == {[title |-> sX], [title |-> sX, content |-> sX]}
ConcUpdatePayloads == {[content |-> sX], [title |-> sX, content |-> sX]}
ConcListArgs == {<<>>}
ConcSearchArgs == {[title |-> qFirst]}
ConcPathIds == {1, 3}

\* the dict a reference points to
Deref(posts, l) == IF l.ref > 0 THEN posts[l.ref] ELSE l.det

\* the locals of another thread after the dict at position i left POSTS
AfterRemove(posts, l, i) ==
    IF "ref" \notin DOMAIN l THEN l
    ELSE IF l.ref = i THEN [l EXCEPT !.ref = 0, !.det = posts[i]]
    ELSE IF l.ref > i THEN [l EXCEPT !.ref = l.ref - 1]
    ELSE l

Finish(t) ==
    /\ pc' = [pc EXCEPT ![t] = "idle"]
    /\ loc' = [loc EXCEPT ![t] = NoLocals]

InFlightAdds == Cardinality({t \in Threads : pc[t] \in {"add_new_id", "add_append"}})

\* get_posts, lines 34-53
c_get_posts(t) ==
    /\ pc[t] = "idle"
    /\ \E args \in ConcListArgs :
        /\ req' = [op |-> "get_posts", args |-> args]
        /\ resp' = GetPostsResponse(POSTS, args)
    /\ UNCHANGED <<POSTS, pc, loc>>

\* search_posts, lines 192-203
c_search_posts(t) ==
    /\ pc[t] = "idle"
    /\ \E args \in ConcSearchArgs :
        /\ req' = [op |-> "search_posts", args |-> args]
        /\ resp' = [status |-> 200, body |-> FilteredPosts(POSTS, args)]
    /\ UNCHANGED <<POSTS, pc, loc>>

\* add_post, lines 76-84
c_add_validate(t) ==
    /\ pc[t] = "idle"
    /\ \E data \in ConcAddPayloads :
        LET missing_fields == MissingFields(data)
        IN  IF missing_fields # <<>>
            THEN /\ req' = [op |-> "add_post", data |-> data]
                 /\ resp' = [status |-> 400, error |-> "Missing required fields",
                             missing_fields |-> missing_fields]
                 /\ UNCHANGED <<POSTS, pc, loc>>
            ELSE /\ Len(POSTS) + InFlightAdds < MaxPosts
                 /\ pc' = [pc EXCEPT ![t] = "add_new_id"]
                 /\ loc' = [loc EXCEPT ![t] = [op |-> "add_post", data |-> data]]
                 /\ UNCHANGED <<POSTS, req, resp>>

\* add_post, line 87
c_add_new_id(t) ==
    /\ pc[t] = "add_new_id"
    /\ NewId(POSTS) <= MaxId
    /\ pc' = [pc EXCEPT ![t] = "add_append"]
    /\ loc' = [loc EXCEPT ![t] =
                  [op |-> "add_post", data |-> loc[t].data, new_id |-> NewId(POSTS)]]
    /\ UNCHANGED <<POSTS, req, resp>>

\* add_post, lines 88-95
c_add_append(t) ==
    /\ pc[t] = "add_append"
    /\ LET new_post == NewPost(loc[t].new_id, loc[t].data)
       IN  /\ POSTS' = AppendPost(POSTS, new_post)
           /\ req' = [op |-> "add_post", data |-> loc[t].data]
           /\ resp' = [status |-> 201, body |-> new_post]
    /\ Finish(t)

\* delete_post, lines 118-122
c_delete_find(t) ==
    /\ pc[t] = "idle"
    /\ \E id \in ConcPathIds :
        LET post_to_delete == FindPost(POSTS, id)
        IN  IF post_to_delete = 0
            THEN /\ req' = [op |-> "delete_post", id |-> id]
                 /\ resp' = [status |-> 404, error |-> "not found"]
                 /\ UNCHANGED <<POSTS, pc, loc>>
            ELSE /\ pc' = [pc EXCEPT ![t] = "delete_remove"]
                 /\ loc' = [loc EXCEPT ![t] =
                               [op |-> "delete_post", id |-> id,
                                ref |-> post_to_delete, det |-> <<>>]]
                 /\ UNCHANGED <<POSTS, req, resp>>

\* delete_post, lines 125-126; list.remove raises ValueError when no element
\* of the list equals its argument, and the server answers 500
c_delete_remove(t) ==
    /\ pc[t] = "delete_remove"
    /\ req' = [op |-> "delete_post", id |-> loc[t].id]
    /\ LET x == Deref(POSTS, loc[t])
       IN  IF \E k \in DOMAIN POSTS : POSTS[k] = x
           THEN LET i == CHOOSE k \in DOMAIN POSTS :
                             /\ POSTS[k] = x
                             /\ \A j \in 1 .. (k - 1) : POSTS[j] # x
                IN  /\ POSTS' = ListRemove(POSTS, x)
                    /\ resp' = [status |-> 200, message |-> "deleted"]
                    /\ pc' = [pc EXCEPT ![t] = "idle"]
                    /\ loc' = [u \in Threads |->
                                  IF u = t THEN NoLocals
                                  ELSE AfterRemove(POSTS, loc[u], i)]
           ELSE /\ resp' = [status |-> 500, error |-> "ValueError"]
                /\ UNCHANGED POSTS
                /\ Finish(t)

\* update_post, lines 147-154
c_update_find(t) ==
    /\ pc[t] = "idle"
    /\ \E post_id \in ConcPathIds, data \in ConcUpdatePayloads :
        LET post_to_update == FindPost(POSTS, post_id)
        IN  IF post_to_update = 0
            THEN /\ req' = [op |-> "update_post", id |-> post_id, data |-> data]
                 /\ resp' = [status |-> 404, error |-> "not found"]
                 /\ UNCHANGED <<POSTS, pc, loc>>
            ELSE /\ pc' = [pc EXCEPT ![t] = "update_read"]
                 /\ loc' = [loc EXCEPT ![t] =
                               [op |-> "update_post", id |-> post_id, data |-> data,
                                ref |-> post_to_update, det |-> <<>>]]
                 /\ UNCHANGED <<POSTS, req, resp>>

\* update_post, lines 157-158; the defaults post_to_update["title"] and
\* post_to_update["content"] are read here
c_update_read(t) ==
    /\ pc[t] = "update_read"
    /\ LET post == Deref(POSTS, loc[t])
       IN  loc' = [loc EXCEPT ![t] =
                      [op |-> "update_post", id |-> loc[t].id, data |-> loc[t].data,
                       ref |-> loc[t].ref, det |-> loc[t].det,
                       old_title |-> post.title, old_content |-> post.content,
                       title |-> NewTitle(loc[t].data, post),
                       content |-> NewContent(loc[t].data, post)]]
    /\ pc' = [pc EXCEPT ![t] = "update_title"]
    /\ UNCHANGED <<POSTS, req, resp>>

\* update_post, line 161
c_update_title(t) ==
    /\ pc[t] = "update_title"
    /\ IF loc[t].ref > 0
       THEN /\ POSTS' = [POSTS EXCEPT ![loc[t].ref] = SetTitle(@, loc[t].title)]
            /\ loc' = loc
       ELSE /\ loc' = [loc EXCEPT ![t].det = SetTitle(@, loc[t].title)]
            /\ UNCHANGED POSTS
    /\ pc' = [pc EXCEPT ![t] = "update_content"]
    /\ UNCHANGED <<req, resp>>

\* update_post, line 162
c_update_content(t) ==
    /\ pc[t] = "update_content"
    /\ IF loc[t].ref > 0
       THEN /\ POSTS' = [POSTS EXCEPT ![loc[t].ref] = SetContent(@, loc[t].content)]
            /\ loc' = loc
       ELSE /\ loc' = [loc EXCEPT ![t].det = SetContent(@, loc[t].content)]
            /\ UNCHANGED POSTS
    /\ pc' = [pc EXCEPT ![t] = "update_return"]
    /\ UNCHANGED <<req, resp>>

\* update_post, lines 165-171
c_update_return(t) ==
    /\ pc[t] = "update_return"
    /\ req' = [op |-> "update_post", id |-> loc[t].id, data |-> loc[t].data]
    /\ resp' = [status |-> 200, body |-> Deref(POSTS, loc[t])]
    /\ UNCHANGED POSTS
    /\ Finish(t)

ConcNext ==
    \E t \in Threads :
        \/ c_get_posts(t)
        \/ c_search_posts(t)
        \/ c_add_validate(t)
        \/ c_add_new_id(t)
        \/ c_add_append(t)
        \/ c_delete_find(t)
        \/ c_delete_remove(t)
        \/ c_update_find(t)
        \/ c_update_read(t)
        \/ c_update_title(t)
        \/ c_update_content(t)
        \/ c_update_return(t)

ConcSpec == Init /\ [][ConcNext]_vars

----------------------------------------------------------------------------
(* Properties of the handlers run one at a time (Spec) *)

\* C1: after any sequence of insert, update, delete, list and search
\* requests run one at a time from the seed store, no two posts of the
\* store have the same id.
C1_UniqueIds ==
    \A i, j \in DOMAIN POSTS : i # j => POSTS[i].id # POSTS[j].id

\* an insert that followed the delete of post 1: more ids than posts
C1_Witness ==
    /\ req.op = "add_post"
    /\ resp.status = 201
    /\ resp.body.id = 3
    /\ Len(POSTS) = 2
    /\ POSTS[1].id = 2

\* C3: a successful insert takes the id one above the greatest id in the
\* store, or 1 when the store is empty; the id is not in the store; the new
\* post has the given title and content and is the last element; the posts
\* that were there keep their values and positions.
C3_InsertEffect ==
    [][(req'.op = "add_post" /\ resp'.status = 201) =>
        LET n == Len(POSTS)
            new_post == POSTS'[n + 1]
        IN  /\ Len(POSTS') = n + 1
            /\ \A i \in 1 .. n : POSTS'[i] = POSTS[i]
            /\ \A i \in 1 .. n : POSTS[i].id < new_post.id
            /\ (n = 0 => new_post.id = 1)
            /\ (n > 0 => \E i \in 1 .. n : POSTS[i].id + 1 = new_post.id)
            /\ new_post.title = req'.data["title"]
            /\ new_post.content = req'.data["content"]
            /\ DOMAIN new_post = {"id", "title", "content"}
            /\ resp'.body = new_post
      ]_vars

\* an insert into the emptied store, and the insert of the scenario
C3_Witness ==
    /\ req.op = "add_post"
    /\ resp.status = 201
    /\ resp.body.id = 1
    /\ POSTS = <<[id |-> 1, title |-> sX, content |-> sEmpty]>>

\* C4: delete of an id in the store removes that one post and keeps the
\* others in their order; delete of an id not in the store answers 404 and
\* leaves the store as it was.
C4_DeleteEffect ==
    [][(req'.op = "delete_post") =>
        IF \E i \in DOMAIN POSTS : POSTS[i].id = req'.id
        THEN /\ resp'.status = 200
             /\ Len(POSTS') = Len(POSTS) - 1
             /\ \E i \in DOMAIN POSTS :
                    /\ POSTS[i].id = req'.id
                    /\ \A j \in 1 .. (i - 1) : POSTS'[j] = POSTS[j]
                    /\ \A j \in (i + 1) .. Len(POSTS) : POSTS'[j - 1] = POSTS[j]
        ELSE /\ resp'.status = 404
             /\ POSTS' = POSTS
      ]_vars

\* the first of three posts deleted
C4_Witness ==
    /\ req.op = "delete_post"
    /\ resp.status = 200
    /\ req.id = 1
    /\ Len(POSTS) = 2
    /\ Ids(POSTS) = {2, 3}

\* C5: update of an id in the store replaces the title only when the
\* payload has a title and the content only when it has a content; id,
\* position and the other posts do not change; update of an id not in the
\* store answers 404 and leaves the store as it was.
C5_UpdateEffect ==
    [][(req'.op = "update_post") =>
        IF \E i \in DOMAIN POSTS : POSTS[i].id = req'.id
        THEN /\ resp'.status = 200
             /\ Len(POSTS') = Len(POSTS)
             /\ \A i \in DOMAIN POSTS :
                    IF POSTS[i].id = req'.id
                    THEN /\ POSTS'[i].id = POSTS[i].id
                         /\ POSTS'[i].title =
                                (IF "title" \in DOMAIN req'.data
                                 THEN req'.data["title"] ELSE POSTS[i].title)
                         /\ POSTS'[i].content =
                                (IF "content" \in DOMAIN req'.data
                                 THEN req'.data["content"] ELSE POSTS[i].content)
                         /\ resp'.body = POSTS'[i]
                    ELSE POSTS'[i] = POSTS[i]
        ELSE /\ resp'.status = 404
             /\ POSTS' = POSTS
      ]_vars

\* a title-only update of the second seed post
C5_Witness ==
    /\ req.op = "update_post"
    /\ resp.status = 200
    /\ req.id = 2
    /\ DOMAIN req.data = {"title"}
    /\ Len(POSTS) >= 2
    /\ POSTS[2] = [id |-> 2, title |-> sEmpty, content |-> sSecondContent]

\* C6: insert answers 400 exactly when title or content is absent from
\* the payload, names the absent fields in the order title, content, and
\* leaves the store as it was; a payload with both fields succeeds, an
\* empty string included.
C6_MissingFields ==
    [][(req'.op = "add_post") =>
        LET no_title == "title" \notin DOMAIN req'.data
            no_content == "content" \notin DOMAIN req'.data
        IN  IF no_title \/ no_content
            THEN /\ resp'.status = 400
                 /\ resp'.missing_fields =
                        (IF no_title THEN <<"title">> ELSE <<>>) \o
                        (IF no_content THEN <<"content">> ELSE <<>>)
                 /\ POSTS' = POSTS
            ELSE /\ resp'.status = 201
                 /\ Len(POSTS') = Len(POSTS) + 1
      ]_vars

\* an insert with an empty title and an empty content
C6_Witness ==
    /\ req.op = "add_post"
    /\ resp.status = 201
    /\ req.data["title"] = <<>>
    /\ req.data["content"] = <<>>
    /\ POSTS[Len(POSTS)].title = <<>>

\* number of positions of seq that hold x
Count(seq, x) == Cardinality({i \in DOMAIN seq : seq[i] = x})

IsPermutation(a, b) ==
    /\ Len(a) = Len(b)
    /\ \A i \in DOMAIN a : Count(a, a[i]) = Count(b, a[i])

\* C7: list never changes the store; for sort_by id, title or content the
\* answer is a permutation of the store, non-decreasing by that field, or
\* non-increasing when order is desc (any other order is ascending); with
\* no sort_by it is the store in its order; any other sort_by answers 400.
C7_ListResult ==
    [][(req'.op = "get_posts") =>
        /\ POSTS' = POSTS
        /\ IF "sort_by" \notin DOMAIN req'.args
           THEN resp'.status = 200 /\ resp'.body = POSTS
           ELSE IF req'.args["sort_by"] \in {"id", "title", "content"}
           THEN LET f == req'.args["sort_by"]
                    desc == "order" \in DOMAIN req'.args /\ req'.args["order"] = "desc"
                    b == resp'.body
                IN  /\ resp'.status = 200
                    /\ IsPermutation(b, POSTS)
                    /\ \A i, j \in DOMAIN b :
                           i < j => IF desc THEN ~KeyLess(f, b[i], b[j])
                                            ELSE ~KeyLess(f, b[j], b[i])
           ELSE resp'.status = 400
      ]_vars

\* three posts listed by title, descending, in an order that is not the store's
C7_Witness ==
    /\ req.op = "get_posts"
    /\ req.args = [sort_by |-> "title", order |-> "desc"]
    /\ resp.status = 200
    /\ Len(resp.body) = 3
    /\ resp.body # POSTS
    /\ StrLess(resp.body[3].title, resp.body[1].title)

\* C8: after any sequence of insert, update and delete requests from the
\* seed store, list sorted by id ascending answers what list without
\* sort_by answers: the posts of the store are in strictly increasing id
\* order.
C8_IdOrderIsStoreOrder ==
    /\ \A i, j \in DOMAIN POSTS : i < j => POSTS[i].id < POSTS[j].id
    /\ GetPostsResponse(POSTS, [sort_by |-> "id"]) = GetPostsResponse(POSTS, <<>>)
    /\ GetPostsResponse(POSTS, [sort_by |-> "id", order |-> "asc"]) =
           GetPostsResponse(POSTS, <<>>)

\* the scenario: insert gives id 3, delete 1, list by id answers ids 2, 3
C8_Witness ==
    /\ req.op = "get_posts"
    /\ req.args = [sort_by |-> "id"]
    /\ Len(POSTS) = 2
    /\ POSTS[1].id = 2
    /\ POSTS[2].id = 3
    /\ resp.body = POSTS

\* term occurs in text, letter case ignored
OccursIgnoringCase(term, text) ==
    \E k \in 0 .. (Len(text) - Len(term)) :
        \A j \in 1 .. Len(term) : LowerChar(term[j]) = LowerChar(text[k + j])

\* C9: search answers exactly the posts whose title holds the title term
\* and whose content holds the content term, letter case ignored, an empty
\* or absent term holding for every post, in store order; it never answers
\* an error and never changes the store.
C9_SearchResult ==
    [][(req'.op = "search_posts") =>
        LET tq == IF "title" \in DOMAIN req'.args THEN req'.args["title"] ELSE <<>>
            cq == IF "content" \in DOMAIN req'.args THEN req'.args["content"] ELSE <<>>
            hit(p) == /\ (tq = <<>> \/ OccursIgnoringCase(tq, p.title))
                      /\ (cq = <<>> \/ OccursIgnoringCase(cq, p.content))
        IN  /\ POSTS' = POSTS
            /\ resp'.status = 200
            /\ resp'.body = SelectSeq(POSTS, hit)
            /\ (tq = <<>> /\ cq = <<>> => resp'.body = POSTS)
      ]_vars

\* the title term "first" on the seed store answers the first post alone
C9_Witness ==
    /\ req.op = "search_posts"
    /\ req.args = [title |-> qFirst]
    /\ POSTS = SeedPosts
    /\ resp.body = <<SeedPosts[1]>>

----------------------------------------------------------------------------
(* Properties of the handlers on two threads (ConcSpec) *)

\* C2: when insert requests run concurrently, every successful insert adds
\* its own post at the end of the store, none is lost, and no two posts of
\* the store have the same id in any state reached under interleaving.
C2_ConcurrentInserts ==
    [][/\ \A t \in Threads : (pc[t] = "add_append" /\ pc'[t] = "idle") =>
              /\ resp'.status = 201
              /\ POSTS' = Append(POSTS, resp'.body)
       /\ \A i, j \in DOMAIN POSTS' : i # j => POSTS'[i].id # POSTS'[j].id
      ]_vars

\* thread u has written the new title and not yet the new content
MidUpdate(u) ==
    /\ pc[u] = "update_content"
    /\ loc[u].ref > 0
    /\ DOMAIN loc[u].data = {"title", "content"}
    /\ loc[u].old_title # loc[u].data["title"]
    /\ loc[u].old_content # loc[u].data["content"]

\* C10: a list or search that runs during an update of title and content
\* never answers the post with the new title and the old content, and an
\* update that answers 200 for an id has its values in the store, on a post
\* of that id, when it returns.
C10_UpdateAtomic ==
    [][/\ (req'.op \in {"get_posts", "search_posts"} /\ resp'.status = 200 /\ pc' = pc) =>
              \A u \in Threads : MidUpdate(u) =>
                  ~\E k \in DOMAIN resp'.body :
                      /\ resp'.body[k].id = loc[u].id
                      /\ resp'.body[k].title = loc[u].data["title"]
                      /\ resp'.body[k].content = loc[u].old_content
       /\ \A t \in Threads : (pc[t] = "update_return" /\ pc'[t] = "idle") =>
              \E i \in DOMAIN POSTS' :
                  /\ POSTS'[i].id = req'.id
                  /\ POSTS'[i] = resp'.body
      ]_vars

====
